---- MODULE Spec2Model ----
(***************************************************************************)
(* Model of scripts/consolidate_node_requirements.py: the dependency       *)
(* consolidator.  consolidate_requirements loads a JSON list of            *)
(* repositories, walks each repository's requirements.txt (recursing into  *)
(* git+ links), merges the version specifiers per lowercased package name  *)
(* and writes one sorted requirements.txt.                                 *)
(*                                                                         *)
(* Text is modelled as sequences of character codes wherever the program   *)
(* compares, lowercases, concatenates or sorts it (package names,          *)
(* specifier clauses, output lines, raw manifest lines).  URLs and branch  *)
(* names are opaque tokens.  The network is chosen lazily, one response    *)
(* per request target, and then held fixed (rawNet, apiNet).               *)
(***************************************************************************)
EXTENDS Integers, Sequences, FiniteSets, TLC

VARIABLES
    file,             \* what json.load finds: "unreadable", "notlist", "list"
    repos,            \* the loaded top-level list (entries of the JSON file)
    pc,               \* position of consolidate_requirements
    i,                \* index of the for-loop over repos (1-based)
    stack,            \* call stack of process_requirements_from_repo frames
    dependency_dict,  \* insertion-ordered dict: sequence of [name, spec]
    url_requirements, \* set of raw lines
    visited_repos,    \* set of <<repo_url, commit_hash>> keys
    rawNet,           \* responses of the raw-content host, fixed once given
    apiNet,           \* responses of the repository-metadata API, fixed once given
    log,              \* history: calls of the loop, requests, sleeps, early returns
    out,              \* lines written to requirements.txt
    run,              \* 1: first invocation, 2: second invocation
    prevOut,          \* what the first invocation wrote
    merged_lines      \* history: the requirement lines lines 64-74 processed

vars == <<file, repos, pc, i, stack, dependency_dict, url_requirements,
          visited_repos, rawNet, apiNet, log, out, run, prevOut, merged_lines>>

\* ------------------------------------------------------------------ bounds

MaxRepos == 2
MaxDepth == 5

\* ------------------------------------------------------------------ values

\* Python's None, as commit_hash (regex group 2 unmatched) or a JSON null.
None == "<None>"

\* Truthiness of a commit_hash / default-branch value: None and "" are falsy.
Falsy(c) == c \in {None, ""}

\* Repository URLs.  A and B have an owner and a repository segment; S has
\* fewer than two path segments; X is a string urlparse/urljoin reject with
\* ValueError (an unbalanced "[" in the host).
UrlA == "https://github.com/a/a"
UrlB == "https://github.com/b/b"
UrlS == "https://github.com"
UrlX == "https://[bad/x/y"

UrlParses(url) == url # UrlX

\* A commit string urljoin rejects with ValueError: joined to the base URL
\* it reads as a network location with an unbalanced "[".
RefX == "//[x"

RefParses(ref) == ref # RefX
PathParts(url) == IF url = UrlS THEN 1 ELSE 2

\* Package names and clauses as character codes.
foo == <<102, 111, 111>>
Foo == <<70, 111, 111>>
bar == <<98, 97, 114>>
DashE == <<45, 101, 32, 46>>
NotFoundText == <<52, 48, 52>>

GE1 == [op |-> <<62, 61>>, v |-> 1]
LT2 == [op |-> <<60>>, v |-> 2]

\* str.lower() on ASCII codes.
Lower(s) == [k \in DOMAIN s |-> IF s[k] \in 65..90 THEN s[k] + 32 ELSE s[k]]

\* ------------------------------------------------------------------ lines

Req(name, spec) == [kind |-> "req", name |-> name, spec |-> spec,
                    url |-> "", rev |-> None, text |-> <<>>]
\* A line "git+<url>[@<rev>][#egg=...]"; url is the text up to the "@".
Git(url, rev)   == [kind |-> "git", name |-> <<>>, spec |-> {},
                    url |-> url, rev |-> rev, text |-> <<>>]
\* A line that starts with "git+" and is not followed by "https://".
GitOther        == [kind |-> "git", name |-> <<>>, spec |-> {},
                    url |-> "ssh://git@host/r", rev |-> None, text |-> <<>>]
Raw(text)       == [kind |-> "raw", name |-> <<>>, spec |-> {},
                    url |-> "", rev |-> None, text |-> text]
Comment         == [kind |-> "comment", name |-> <<>>, spec |-> {},
                    url |-> "", rev |-> None, text |-> <<>>]

\* Manifests a 200 response may carry.
ManA    == <<Req(foo, {GE1}), Git(UrlB \o ".git", "main"), Git(UrlB, RefX)>>
ManB    == <<Git(UrlA, None), Req(Foo, {LT2})>>
ManX1   == <<Git(UrlX, "main"), Req(Foo, {LT2})>>
ManRaw  == <<Raw(DashE), Comment, GitOther, Git(UrlX, "main"), Req(bar, {})>>

Manifests == {ManA, ManB, ManX1, ManRaw}

\* Responses of requests.get: status 0 stands for a raised exception.
RawResponses ==
    {[status |-> 200, body |-> m] : m \in Manifests}
    \cup {[status |-> 404, body |-> <<Raw(NotFoundText)>>],
          [status |-> 0, body |-> <<>>]}

\* Responses of the metadata API: branch is repo_info.get('default_branch');
\* status 0 stands for a raised exception (a non-200 status is handled alike).
ApiResponses ==
    {[status |-> 200, branch |-> "main"], [status |-> 200, branch |-> "dev"],
     [status |-> 200, branch |-> None], [status |-> 0, branch |-> None]}

\* JSON values of an entry's fields.
JStr(s) == [t |-> "str", v |-> s]
JNull   == [t |-> "null", v |-> ""]
JNum    == [t |-> "num", v |-> "5"]
JAbsent == [t |-> "absent", v |-> ""]

Obj(repo, commit) == [dict |-> TRUE, repo |-> repo, commit |-> commit]
NonDict           == [dict |-> FALSE, repo |-> JAbsent, commit |-> JAbsent]

Entries ==
    {Obj(JStr(UrlA), JAbsent), Obj(JStr(UrlA), JStr("main")),
     Obj(JStr(UrlB), JStr(" main ")), Obj(JStr(UrlS), JStr("")),
     Obj(JStr(UrlX), JAbsent), Obj(JStr(UrlX), JStr("main")),
     Obj(JStr(UrlB), JStr(RefX)), Obj(JAbsent, JStr("main")),
     Obj(JStr(UrlA), JNull), Obj(JNum, JStr("main")), NonDict}

RECURSIVE SeqsUpTo(_, _)
SeqsUpTo(S, n) ==
    IF n = 0 THEN {<<>>}
    ELSE LET shorter == SeqsUpTo(S, n - 1)
         IN  shorter \cup {Append(q, e) : q \in shorter, e \in S}

\* ------------------------------------------------------- pure functions

\* str.strip() of a commit string (spaces only).
RECURSIVE Strip(_)
Strip(s) ==
    IF Len(s) = 0 THEN s
    ELSE IF SubSeq(s, 1, 1) = " " THEN Strip(SubSeq(s, 2, Len(s)))
    ELSE IF SubSeq(s, Len(s), Len(s)) = " " THEN Strip(SubSeq(s, 1, Len(s) - 1))
    ELSE s

\* repo.get("repo"): None when the key is absent or null.
RepoOf(e) == IF e.repo.t = "str" THEN e.repo.v
             ELSE IF e.repo.t = "num" THEN e.repo.v ELSE None

\* Truthiness of repo.get("repo").
RepoTruthy(e) == \/ e.repo.t = "str" /\ e.repo.v # ""
                 \/ e.repo.t = "num"

\* repo.get("commit", "").strip() raises AttributeError unless the value is
\* a string; repo.get raises it unless the entry is a dict.
EntryRaises(e) == \/ ~e.dict
                  \/ e.commit.t \notin {"str", "absent"}

CommitOf(e) == IF e.commit.t = "absent" THEN "" ELSE Strip(e.commit.v)

\* A repo value on which urlparse (line 13) raises: a non-string cannot be
\* urlparsed, a string the URL parser rejects raises ValueError.
CallRaises(url) == url = JNum.v \/ ~UrlParses(url)

\* Lines 52-53 raise: a non-string has no .replace, and urljoin raises
\* ValueError on a base URL or a commit the URL parser rejects.
UrlJoinRaises(url, commit) == CallRaises(url) \/ ~RefParses(commit)

\* Mutant of LoadFails: the isinstance(repos, list) check left out.
LoadFailsUnreadableOnly(f) == f = "unreadable"

\* The check json.load / isinstance(repos, list) makes.
LoadFails(f) == f # "list"

\* The process's exit status: 1 from sys.exit(1) and from an uncaught
\* exception, 0 when consolidate_requirements returns; -1 while running.
ExitStatus(p) == IF p = "written" THEN 0
                 ELSE IF p \in {"fatal", "crashed"} THEN 1 ELSE -1

\* parse_git_requirement: the pattern needs "https://" after "git+"; a
\* trailing ".git" is cut from the URL; the revision is None without "@".
EndsWithDotGit(u) == Len(u) >= 4 /\ SubSeq(u, Len(u) - 3, Len(u)) = ".git"
ParseGitRequirement(l) ==
    IF Len(l.url) >= 8 /\ SubSeq(l.url, 1, 8) = "https://"
    THEN <<IF EndsWithDotGit(l.url) THEN SubSeq(l.url, 1, Len(l.url) - 4)
           ELSE l.url, l.rev>>
    ELSE <<None, None>>

\* "git_repo_url not in visited_repos": visited_repos holds (url, commit)
\* tuples, and a str never equals a tuple, so the membership test is False.
UrlInVisited(url) == FALSE

\* Mutant of KeyVisited: the visited check left out.
KeyVisitedNever(key) == FALSE

\* "repo_commit_key in visited_repos".
KeyVisited(key) == key \in visited_repos

\* Mutant of DefaultBranch: no fallback to "main" on a failed query.
DefaultBranchNoFallback(resp) == resp.branch

\* get_default_branch on a URL with two path segments, given the response.
DefaultBranch(resp) == IF resp.status = 200 THEN resp.branch ELSE "main"

\* Mutant of ResponseLines: the status check left out.
ResponseLinesAnyStatus(resp) == resp.body

\* The lines a response contributes: response.text.splitlines() on 200,
\* nothing otherwise.
ResponseLines(resp) == IF resp.status = 200 THEN resp.body ELSE <<>>

\* dict operations on the insertion-ordered dependency_dict.
DictHas(d, n) == \E k \in DOMAIN d : d[k].name = n
DictGet(d, n) == d[CHOOSE k \in DOMAIN d : d[k].name = n].spec
DictSet(d, n, sp) ==
    IF DictHas(d, n)
    THEN [k \in DOMAIN d |-> IF d[k].name = n THEN [name |-> n, spec |-> sp]
                             ELSE d[k]]
    ELSE Append(d, [name |-> n, spec |-> sp])

\* SpecifierSet.__and__: the set of clauses of both.
Combine(s1, s2) == s1 \cup s2

\* Mutant of KeyName: the name is not lowercased.
KeyNameAsIs(name) == name

\* The dict key of a requirement: req.name.lower().
KeyName(name) == Lower(name)

\* Lines 65-74: merge one parsed requirement into the dict.
Merge(d, l) ==
    LET name == KeyName(l.name)
    IN  IF DictHas(d, name)
        THEN DictSet(d, name, Combine(DictGet(d, name), l.spec))
        ELSE DictSet(d, name, l.spec)

\* Python's str comparison: lexicographic by code point.
RECURSIVE LexLess(_, _)
LexLess(a, b) ==
    IF Len(b) = 0 THEN FALSE
    ELSE IF Len(a) = 0 THEN TRUE
    ELSE IF a[1] # b[1] THEN a[1] < b[1]
    ELSE LexLess(Tail(a), Tail(b))

LexLeq(a, b) == a = b \/ LexLess(a, b)

\* sorted() of a list of strings (insertion sort; duplicates kept).
RECURSIVE Insert(_, _)
Insert(x, q) ==
    IF Len(q) = 0 THEN <<x>>
    ELSE IF LexLeq(x, q[1]) THEN <<x>> \o q
    ELSE <<q[1]>> \o Insert(x, Tail(q))

RECURSIVE Sorted(_)
Sorted(q) == IF Len(q) = 0 THEN <<>> ELSE Insert(q[1], Sorted(Tail(q)))

\* str(Specifier): operator followed by the version.
StrClause(c) == c.op \o <<48 + c.v>>

RECURSIVE JoinComma(_)
JoinComma(q) ==
    IF Len(q) = 0 THEN <<>>
    ELSE IF Len(q) = 1 THEN q[1]
    ELSE q[1] \o <<44>> \o JoinComma(Tail(q))

RECURSIVE SetToSeq(_)
SetToSeq(S) ==
    IF S = {} THEN <<>>
    ELSE LET x == CHOOSE y \in S : TRUE IN <<x>> \o SetToSeq(S \ {x})

\* str(SpecifierSet): ",".join(sorted(str(s) for s in specs)).
StrSpec(sp) == JoinComma(Sorted(SetToSeq({StrClause(c) : c \in sp})))

\* Lines 141-145: f"{name}{specifier}" when the specifier is non-empty.
FormatLine(e) == IF e.spec # {} THEN e.name \o StrSpec(e.spec) ELSE e.name

\* The order in which the lines are written: sorted(consolidated_requirements).
WriteOrder(q) == Sorted(q)

\* Lines 139-150: the lines written to requirements.txt.
Consolidated(d) == WriteOrder([k \in DOMAIN d |-> FormatLine(d[k])])

\* ---------------------------------------------------------------- state

\* A call of process_requirements_from_repo: key is (repo_url, commit_hash)
\* as passed, commit is the local commit_hash (reassigned on resolution).
Frame(url, commit) == [url |-> url, commit |-> commit, key |-> <<url, commit>>,
                       stage |-> "enter", lines |-> <<>>]

Top == stack[Len(stack)]

Event(ev, url, ref, status) ==
    [ev |-> ev, url |-> url, ref |-> ref, status |-> status]

\* The response a request target gets: the one already given, else any.
RawChoices(url, ref) ==
    IF \E t \in rawNet : t.url = url /\ t.ref = ref
    THEN {t.resp : t \in {u \in rawNet : u.url = url /\ u.ref = ref}}
    ELSE RawResponses

ApiChoices(url) ==
    IF \E t \in apiNet : t.url = url
    THEN {t.resp : t \in {u \in apiNet : u.url = url}}
    ELSE ApiResponses

Init ==
    /\ file \in {"unreadable", "notlist", "list"}
    /\ repos \in IF file = "list" THEN SeqsUpTo(Entries, MaxRepos) ELSE {<<>>}
    /\ pc = "load"
    /\ i = 1
    /\ stack = <<>>
    /\ dependency_dict = <<>>
    /\ url_requirements = {}
    /\ visited_repos = {}
    /\ rawNet = {}
    /\ apiNet = {}
    /\ log = <<>>
    /\ out = <<>>
    /\ run = 1
    /\ prevOut = <<>>
    /\ merged_lines = {}

\* Return from the top frame: to the caller's loop over its manifest lines,
\* or to the for-loop of consolidate_requirements.
DoReturn ==
    /\ stack' = SubSeq(stack, 1, Len(stack) - 1)
    /\ pc' = IF Len(stack) = 1 THEN "loop" ELSE pc
    /\ i' = IF Len(stack) = 1 THEN i + 1 ELSE i

\* An exception leaves the top frame: the caller's "except Exception" of
\* line 89 takes it (the caller abandons its remaining lines and goes on to
\* its sleep); out of the outermost frame it ends the program.
DoRaise ==
    /\ stack' = IF Len(stack) = 1 THEN <<>>
                ELSE [SubSeq(stack, 1, Len(stack) - 1)
                        EXCEPT ![Len(stack) - 1] =
                            [@ EXCEPT !.lines = <<>>]]
    /\ pc' = IF Len(stack) = 1 THEN "crashed" ELSE pc
    /\ i' = i

\* ------------------------------------------- consolidate_requirements

\* Lines 117-124: the file cannot be read or parsed, or is not a list.
LoadFail ==
    /\ pc = "load"
    /\ LoadFails(file)
    /\ pc' = "fatal"
    /\ UNCHANGED <<file, repos, i, stack, dependency_dict, url_requirements,
                   visited_repos, rawNet, apiNet, log, out, run, prevOut, merged_lines>>

LoadOk ==
    /\ pc = "load"
    /\ ~LoadFails(file)
    /\ pc' = "loop"
    /\ UNCHANGED <<file, repos, i, stack, dependency_dict, url_requirements,
                   visited_repos, rawNet, apiNet, log, out, run, prevOut, merged_lines>>

\* Lines 131-132 raise AttributeError: not caught anywhere.
EntryRaise ==
    /\ pc = "loop"
    /\ i <= Len(repos)
    /\ EntryRaises(repos[i])
    /\ pc' = "crashed"
    /\ UNCHANGED <<file, repos, i, stack, dependency_dict, url_requirements,
                   visited_repos, rawNet, apiNet, log, out, run, prevOut, merged_lines>>

\* Lines 133-135: an entry without a repo is reported and skipped.
EntrySkip ==
    /\ pc = "loop"
    /\ i <= Len(repos)
    /\ ~EntryRaises(repos[i])
    /\ ~RepoTruthy(repos[i])
    /\ i' = i + 1
    /\ UNCHANGED <<file, repos, pc, stack, dependency_dict, url_requirements,
                   visited_repos, rawNet, apiNet, log, out, run, prevOut, merged_lines>>

\* Line 137: the call of process_requirements_from_repo.
EntryCall ==
    /\ pc = "loop"
    /\ i <= Len(repos)
    /\ ~EntryRaises(repos[i])
    /\ RepoTruthy(repos[i])
    /\ stack' = <<Frame(RepoOf(repos[i]), CommitOf(repos[i]))>>
    /\ pc' = "call"
    /\ log' = Append(log, Event("entry", RepoOf(repos[i]), CommitOf(repos[i]), 0))
    /\ UNCHANGED <<file, repos, i, dependency_dict, url_requirements,
                   visited_repos, rawNet, apiNet, out, run, prevOut, merged_lines>>

\* Lines 139-152: build, sort and write the manifest; exit status 0.
Write ==
    /\ pc = "loop"
    /\ i > Len(repos)
    /\ out' = Consolidated(dependency_dict)
    /\ pc' = "written"
    /\ UNCHANGED <<file, repos, i, stack, dependency_dict, url_requirements,
                   visited_repos, rawNet, apiNet, log, run, prevOut, merged_lines>>

\* ------------------------------------- process_requirements_from_repo
\*
\* Two branches of the function have no action: "if not repo_url: return"
\* (line 33) cannot be taken, since both callers pass a truthy URL; and
\* the "except Exception" of line 85 takes what Requirement() or "&" raise
\* besides InvalidRequirement, which the lines modelled here never do.

\* Lines 37-39: the key was seen before; return at once.
EnterVisited ==
    /\ pc = "call"
    /\ Top.stage = "enter"
    /\ KeyVisited(Top.key)
    /\ log' = Append(log,
                Event(IF \E k \in 1..(Len(stack) - 1) : stack[k].key = Top.key
                      THEN "cycle" ELSE "seen", Top.url, Top.key[2], 0))
    /\ DoReturn
    /\ UNCHANGED <<file, repos, dependency_dict, url_requirements,
                   visited_repos, rawNet, apiNet, out, run, prevOut, merged_lines>>

\* Lines 40-44: mark the key, then resolve an unset commit.
EnterMark ==
    /\ pc = "call"
    /\ Top.stage = "enter"
    /\ ~KeyVisited(Top.key)
    /\ visited_repos' = visited_repos \cup {Top.key}
    /\ stack' = [stack EXCEPT ![Len(stack)].stage =
                    IF Falsy(Top.commit) THEN "resolve" ELSE "url"]
    /\ UNCHANGED <<file, repos, pc, i, dependency_dict, url_requirements,
                   rawNet, apiNet, log, out, run, prevOut, merged_lines>>

\* Lines 13-16, 47-49: fewer than two path segments, no default branch;
\* the repository is skipped (no request, no sleep).
ResolveInvalid ==
    /\ pc = "call"
    /\ Top.stage = "resolve"
    /\ ~CallRaises(Top.url)
    /\ PathParts(Top.url) < 2
    /\ log' = Append(log, Event("skip", Top.url, None, 0))
    /\ DoReturn
    /\ UNCHANGED <<file, repos, dependency_dict, url_requirements,
                   visited_repos, rawNet, apiNet, out, run, prevOut, merged_lines>>

\* Line 13: urlparse raises, outside every try block.
ResolveRaise ==
    /\ pc = "call"
    /\ Top.stage = "resolve"
    /\ CallRaises(Top.url)
    /\ DoRaise
    /\ UNCHANGED <<file, repos, dependency_dict, url_requirements,
                   visited_repos, rawNet, apiNet, log, out, run, prevOut, merged_lines>>

\* Lines 18-30, 46-49: query the API; fall back to "main" on any failure;
\* skip the repository when the answer is empty.
ResolveQuery ==
    /\ pc = "call"
    /\ Top.stage = "resolve"
    /\ ~CallRaises(Top.url)
    /\ PathParts(Top.url) >= 2
    /\ \E resp \in ApiChoices(Top.url) :
         LET b == DefaultBranch(resp)
             asked == Append(log, Event("api", Top.url, resp.branch, resp.status))
         IN  /\ apiNet' = apiNet \cup {[url |-> Top.url, resp |-> resp]}
             /\ IF Falsy(b)
                THEN /\ log' = Append(asked, Event("skip", Top.url, None, 0))
                     /\ DoReturn
                ELSE /\ log' = asked
                     /\ stack' = [stack EXCEPT ![Len(stack)].commit = b,
                                               ![Len(stack)].stage = "url"]
                     /\ UNCHANGED <<pc, i>>
    /\ UNCHANGED <<file, repos, dependency_dict, url_requirements,
                   visited_repos, rawNet, out, run, prevOut, merged_lines>>

\* Lines 52-53: .replace / urljoin raise, outside every try block.
UrlRaise ==
    /\ pc = "call"
    /\ Top.stage = "url"
    /\ UrlJoinRaises(Top.url, Top.commit)
    /\ DoRaise
    /\ UNCHANGED <<file, repos, dependency_dict, url_requirements,
                   visited_repos, rawNet, apiNet, log, out, run, prevOut, merged_lines>>

\* Lines 55-58, 87-90: the manifest request and what it yields.
Fetch ==
    /\ pc = "call"
    /\ Top.stage = "url"
    /\ ~UrlJoinRaises(Top.url, Top.commit)
    /\ \E resp \in RawChoices(Top.url, Top.commit) :
         /\ rawNet' = rawNet \cup
                {[url |-> Top.url, ref |-> Top.commit, resp |-> resp]}
         /\ log' = Append(log, Event("fetch", Top.url, Top.commit, resp.status))
         /\ stack' = [stack EXCEPT ![Len(stack)].stage = "lines",
                                   ![Len(stack)].lines = ResponseLines(resp)]
    /\ UNCHANGED <<file, repos, pc, i, dependency_dict, url_requirements,
                   visited_repos, apiNet, out, run, prevOut, merged_lines>>

AtLine == /\ pc = "call"
          /\ Top.stage = "lines"
          /\ Len(Top.lines) > 0

Rest == [stack EXCEPT ![Len(stack)].lines = Tail(Top.lines)]

\* Lines 60-62: blank lines and comments.
LineSkip ==
    /\ AtLine
    /\ Head(Top.lines).kind = "comment"
    /\ stack' = Rest
    /\ UNCHANGED <<file, repos, pc, i, dependency_dict, url_requirements,
                   visited_repos, rawNet, apiNet, log, out, run, prevOut, merged_lines>>

\* Lines 63-74: a parsed requirement is merged into the dict.
LineReq ==
    /\ AtLine
    /\ Head(Top.lines).kind = "req"
    /\ dependency_dict' = Merge(dependency_dict, Head(Top.lines))
    /\ merged_lines' = merged_lines \cup {Head(Top.lines)}
    /\ stack' = Rest
    /\ UNCHANGED <<file, repos, pc, i, url_requirements, visited_repos,
                   rawNet, apiNet, log, out, run, prevOut>>

\* Lines 77-81: a git+ line whose URL is extracted: the recursive call.
LineGitCall ==
    /\ AtLine
    /\ Head(Top.lines).kind = "git"
    /\ LET g == ParseGitRequirement(Head(Top.lines))
       IN  /\ g[1] # None
           /\ ~UrlInVisited(g[1])
           /\ Len(stack) < MaxDepth
           /\ stack' = Append(Rest, Frame(g[1], g[2]))
    /\ UNCHANGED <<file, repos, pc, i, dependency_dict, url_requirements,
                   visited_repos, rawNet, apiNet, log, out, run, prevOut, merged_lines>>

\* Lines 77-80: a git+ line the pattern does not match is passed over.
LineGitNoMatch ==
    /\ AtLine
    /\ Head(Top.lines).kind = "git"
    /\ ParseGitRequirement(Head(Top.lines))[1] = None
    /\ stack' = Rest
    /\ UNCHANGED <<file, repos, pc, i, dependency_dict, url_requirements,
                   visited_repos, rawNet, apiNet, log, out, run, prevOut, merged_lines>>

\* Lines 82-84: any other unparseable line joins url_requirements.
LineRaw ==
    /\ AtLine
    /\ Head(Top.lines).kind = "raw"
    /\ url_requirements' = url_requirements \cup {Head(Top.lines).text}
    /\ stack' = Rest
    /\ UNCHANGED <<file, repos, pc, i, dependency_dict, visited_repos,
                   rawNet, apiNet, log, out, run, prevOut, merged_lines>>

\* Line 93: the sleep that ends the call, then the return.
Sleep ==
    /\ pc = "call"
    /\ Top.stage = "lines"
    /\ Len(Top.lines) = 0
    /\ log' = Append(log, Event("sleep", Top.url, Top.commit, 0))
    /\ DoReturn
    /\ UNCHANGED <<file, repos, dependency_dict, url_requirements,
                   visited_repos, rawNet, apiNet, out, run, prevOut, merged_lines>>

\* ------------------------------------------------------ a second run

\* The program is run again on the same list in reverse order, against the
\* same network; every structure is created fresh.
Rerun ==
    /\ run = 1
    /\ pc = "written"
    /\ repos' = [k \in 1..Len(repos) |-> repos[Len(repos) + 1 - k]]
    /\ repos' # repos
    /\ run' = 2
    /\ prevOut' = out
    /\ pc' = "load"
    /\ i' = 1
    /\ stack' = <<>>
    /\ dependency_dict' = <<>>
    /\ url_requirements' = {}
    /\ visited_repos' = {}
    /\ log' = <<>>
    /\ out' = <<>>
    /\ merged_lines' = {}
    /\ UNCHANGED <<file, rawNet, apiNet>>

Step ==
    \/ LoadFail \/ LoadOk \/ EntryRaise \/ EntrySkip \/ EntryCall \/ Write
    \/ EnterVisited \/ EnterMark \/ ResolveInvalid \/ ResolveRaise
    \/ ResolveQuery \/ UrlRaise \/ Fetch
    \/ LineSkip \/ LineReq \/ LineGitCall \/ LineGitNoMatch \/ LineRaw
    \/ Sleep

\* One run of the program.
Spec == Init /\ [][Step]_vars

\* A run, followed by a run on the reversed list.
Next == Step \/ Rerun

SpecTwoRuns == Init /\ [][Next]_vars

\* The interpreter always takes the program's next step, and every request
\* is answered (with a response or an exception).
SpecFair == Spec /\ WF_vars(Step)

\* =============================================================== claims

\* The manifests that were fetched with status 200 in the current run.
FetchedBodies ==
    {t.resp.body : t \in {u \in rawNet :
        /\ u.resp.status = 200
        /\ \E k \in DOMAIN log : /\ log[k].ev = "fetch"
                                 /\ log[k].url = u.url
                                 /\ log[k].ref = u.ref}}

IsFetch(k) == log[k].ev = "fetch"

\* An entry at which an exception escapes whenever the loop reaches it: it
\* is not an object, its commit is not a string, or its repo is a truthy
\* non-string.
AlwaysRaises(e) ==
    \/ ~e.dict
    \/ e.commit.t \notin {"str", "absent"}
    \/ e.repo.t = "num"

\* An entry from whose repo and commit no manifest URL can be built: its
\* call raises, unless it returns at once because its key is visited.
Unbuildable(e) ==
    /\ ~AlwaysRaises(e)
    /\ e.repo.t = "str" /\ e.repo.v # ""
    /\ ~UrlParses(e.repo.v) \/ ~RefParses(CommitOf(e))

\* An entry that is not a well-formed repository descriptor.
Malformed(e) == AlwaysRaises(e) \/ Unbuildable(e)

InputOk == file = "list" /\ \A k \in DOMAIN repos : ~Malformed(repos[k])

\* The loop's call for the entry returned at once: its key was visited.
ReturnedAsVisited(e) ==
    \E j \in 1..(Len(log) - 1) :
        /\ log[j] = Event("entry", RepoOf(e), CommitOf(e), 0)
        /\ log[j + 1] = Event("seen", RepoOf(e), CommitOf(e), 0)

\* C1 (as claimed): once the manifest is written, every raw line (neither a
\* requirement, a comment nor a git+ link) of a fetched manifest is one of
\* the written lines.
C1_OpaqueLinesWritten ==
    pc = "written" =>
        \A body \in FetchedBodies : \A k \in DOMAIN body :
            body[k].kind = "raw" => \E j \in DOMAIN out : out[j] = body[k].text

\* C2 (as claimed): no two manifest fetches of one run target the same
\* repository at the same resolved ref.
C2_FetchAtMostOnce ==
    \A j, k \in DOMAIN log :
        (j < k /\ IsFetch(j) /\ IsFetch(k))
            => <<log[j].url, log[j].ref>> # <<log[k].url, log[k].ref>>

\* The call just entered is for a reference that a frame further up the
\* call stack is processing: a cycle of links, or a self-reference.
CycleMet ==
    /\ pc = "call"
    /\ Top.stage = "enter"
    /\ \E k \in 1..(Len(stack) - 1) : stack[k].key = Top.key

\* C3: on a well-formed input list, whenever the traversal meets a link to
\* a repository reference that is being processed further up the call
\* stack (a cycle, or a self-reference), the run goes on to write the
\* manifest.
C3_CycleTerminates == (CycleMet /\ InputOk) ~> (pc = "written")

\* C3 witness: a manifest written after a cycle was met and cut.
C3_Witness ==
    /\ pc = "written"
    /\ \E k \in DOMAIN log : log[k].ev = "cycle"

\* C4 (as claimed): a run on the reordered list, against the same network,
\* writes the manifest the first run wrote.
C4_OrderIndependent ==
    (run = 2 /\ pc = "written") => out = prevOut

\* Whether a version satisfies a clause / every clause of a specifier.
ClauseAccepts(c, v) == IF c.op = <<62, 61>> THEN v >= c.v ELSE v < c.v
Accepts(sp, v) == \A c \in sp : ClauseAccepts(c, v)

\* The requirement lines of the manifests fetched with status 200.
FetchedReqs ==
    UNION {{body[k] : k \in {j \in DOMAIN body : body[j].kind = "req"}} :
              body \in FetchedBodies}

\* C5 (as claimed): after a run, for every package name (lowercased) of a
\* requirement line of a successfully fetched manifest, the dict holds a
\* specifier, which a version satisfies exactly when it satisfies the
\* specifier of every such line of that name.
C5_MergeIsIntersection ==
    pc = "written" =>
        \A l \in FetchedReqs :
            /\ DictHas(dependency_dict, Lower(l.name))
            /\ \A v \in 0..3 :
                 Accepts(DictGet(dependency_dict, Lower(l.name)), v)
                   <=> \A m \in FetchedReqs :
                           Lower(m.name) = Lower(l.name) => Accepts(m.spec, v)

\* The same statement about the lines the loop of lines 59-74 processed
\* (it holds: the merge itself is the intersection).
MergeOfProcessedLines ==
    /\ \A l \in merged_lines :
         /\ DictHas(dependency_dict, Lower(l.name))
         /\ \A v \in 0..3 :
              Accepts(DictGet(dependency_dict, Lower(l.name)), v)
                <=> \A m \in merged_lines :
                        Lower(m.name) = Lower(l.name) => Accepts(m.spec, v)
    /\ \A k \in DOMAIN dependency_dict :
         \E l \in merged_lines : Lower(l.name) = dependency_dict[k].name

\* C6 (as claimed): the run ends with exit status 1 exactly when the input
\* file cannot be read or is not a list.
C6_ExitOneOnlyOnBadFile ==
    ExitStatus(pc) \in {0, 1} => (ExitStatus(pc) = 1 <=> file # "list")

\* C6 (amended): exit status 1 comes from an unreadable or non-list file
\* (before any request, nothing written) or from an exception that escapes
\* at the entry the loop reached (nothing written): an entry that always
\* raises, or an unbuildable one whose call raised before any request of
\* its own.  A written manifest has status 0, and then no entry always
\* raises and every unbuildable entry returned at once as already visited.
\* A list of well-formed entries never ends with status 1, and the run
\* never stops anywhere else.
C6_ExitStatus ==
    /\ pc = "fatal" => (file # "list" /\ log = <<>> /\ out = <<>>)
    /\ file # "list" => pc \in {"load", "fatal"}
    /\ pc = "crashed" =>
          /\ file = "list" /\ out = <<>> /\ i \in DOMAIN repos
          /\ \/ AlwaysRaises(repos[i])
             \/ /\ Unbuildable(repos[i])
                /\ ~ReturnedAsVisited(repos[i])
                /\ log # <<>>
                /\ log[Len(log)] = Event("entry", RepoOf(repos[i]),
                                         CommitOf(repos[i]), 0)
    /\ pc = "written" =>
          /\ ExitStatus(pc) = 0
          /\ \A k \in DOMAIN repos :
                /\ ~AlwaysRaises(repos[k])
                /\ Unbuildable(repos[k]) => ReturnedAsVisited(repos[k])
    /\ InputOk => ExitStatus(pc) # 1
    /\ ExitStatus(pc) \in {0, 1} \/ ENABLED Step

\* C6 witness: a manifest written for a list with an entry whose repo the
\* URL parser rejects; a link of a fetched manifest had marked its key.
C6_Witness ==
    /\ pc = "written"
    /\ \E k \in DOMAIN repos : Unbuildable(repos[k]) /\ ~UrlParses(RepoOf(repos[k]))
    /\ \E k \in DOMAIN log : IsFetch(k) /\ log[k].status = 200

\* A step in which a manifest request is answered by any status but 200,
\* or by an exception.
FailedFetchStep ==
    /\ Len(log') = Len(log) + 1
    /\ log'[Len(log')].ev = "fetch"
    /\ log'[Len(log')].status # 200

\* C7: the step in which a manifest request fails (any status but 200, or
\* an exception) changes neither the dict nor the raw-line set, leaves the
\* call with no line to process, and does not end the run: the for-loop's
\* position and the remaining entries are as before.
C7_FailedFetchContributesNothing ==
    [][FailedFetchStep =>
          /\ dependency_dict' = dependency_dict
          /\ url_requirements' = url_requirements
          /\ pc' = "call" /\ i' = i /\ repos' = repos
          /\ stack'[Len(stack')].lines = <<>>]_vars

\* C7 witness: a manifest written after a failed request for one
\* repository and a later successful one for another.
C7_Witness ==
    /\ pc = "written"
    /\ Len(dependency_dict) > 0
    /\ \E j, k \in DOMAIN log :
         /\ j < k
         /\ IsFetch(j) /\ log[j].status # 200
         /\ IsFetch(k) /\ log[k].status = 200 /\ log[k].url # log[j].url

\* The package name of a written line: the codes before the first
\* operator character (one of < = > ! ~).
RECURSIVE LineName(_)
LineName(line) ==
    IF Len(line) = 0 \/ line[1] \in {60, 61, 62, 33, 126} THEN <<>>
    ELSE <<line[1]>> \o LineName(Tail(line))

\* C8: the written lines are in strictly ascending lexicographic order,
\* no two of them carry the same name up to letter case, their names are
\* the lowercased names of the processed requirement lines, and each line
\* is the name followed by the clauses of its dict entry (nothing when
\* there is none).
C8_OneSortedLinePerName ==
    pc = "written" =>
        /\ \A k \in 1..(Len(out) - 1) : LexLess(out[k], out[k + 1])
        /\ \A j, k \in DOMAIN out :
              j # k => Lower(LineName(out[j])) # Lower(LineName(out[k]))
        /\ {LineName(out[k]) : k \in DOMAIN out}
              = {Lower(l.name) : l \in merged_lines}
        /\ Len(out) = Len(dependency_dict)
        /\ \A k \in DOMAIN dependency_dict :
              \E j \in DOMAIN out :
                 /\ LineName(out[j]) = dependency_dict[k].name
                 /\ (dependency_dict[k].spec = {}) <=> (out[j] = LineName(out[j]))

\* C8 witness: "foo" and "Foo" were both processed, "foo" entered the dict
\* first, and the two written lines start with "bar".
C8_Witness ==
    /\ pc = "written"
    /\ {Foo, foo} \subseteq {l.name : l \in merged_lines}
    /\ Len(out) = 2
    /\ dependency_dict[1].name = foo
    /\ out[1] = bar

\* C9 (as claimed): a repository whose commit is unset is never skipped
\* without a fetch.
C9_NeverSkipped ==
    \A k \in DOMAIN log : log[k].ev # "skip"

\* C9 (amended): a failed default-branch query falls back to "main" and a
\* successful one yields the branch it names; the manifest request at that
\* ref is the very next request.  A repository is skipped without a fetch
\* only when its URL has fewer than two path segments or the API answers
\* 200 with an empty default branch.
C9_ResolveThenFetch ==
    /\ \A k \in DOMAIN log :
         /\ log[k].ev = "api" =>
              LET ref == IF log[k].status = 200 THEN log[k].ref ELSE "main"
              IN  IF Falsy(ref)
                  THEN k < Len(log) /\ log[k + 1].ev = "skip"
                  ELSE IF k < Len(log)
                       THEN /\ log[k + 1].ev = "fetch"
                            /\ log[k + 1].url = log[k].url
                            /\ log[k + 1].ref = ref
                       ELSE /\ pc = "call"
                            /\ Top.stage = "url"
                            /\ Top.url = log[k].url
                            /\ Top.commit = ref
         /\ log[k].ev = "skip" =>
              \/ PathParts(log[k].url) < 2
              \/ /\ k > 1
                 /\ log[k - 1].ev = "api"
                 /\ log[k - 1].url = log[k].url
                 /\ log[k - 1].status = 200
                 /\ Falsy(log[k - 1].ref)
    /\ \A d \in DOMAIN stack :
         (Falsy(stack[d].key[2]) /\ stack[d].stage # "enter"
             /\ stack[d].stage # "resolve")
           => /\ ~Falsy(stack[d].commit)
              /\ \E k \in DOMAIN log : /\ log[k].ev = "api"
                                       /\ log[k].url = stack[d].url

\* C9 witness: a failed query followed by a successful fetch at "main".
C9_Witness ==
    \E k \in DOMAIN log :
        /\ log[k].ev = "api"
        /\ log[k].status # 200
        /\ k < Len(log)
        /\ log[k + 1].ev = "fetch"
        /\ log[k + 1].ref = "main"
        /\ log[k + 1].status = 200

\* C10 (as claimed): between any two manifest requests of a run there is a
\* sleep.
C10_SleepBetweenFetches ==
    \A j, k \in DOMAIN log :
        (j < k /\ IsFetch(j) /\ IsFetch(k))
            => \E m \in (j + 1)..(k - 1) : log[m].ev = "sleep"

====
